---- MODULE Spec2Model ----
(***************************************************************************)
(* Model of guardian-cli's Gemini adapter, src/ai/gemini_client.py:        *)
(* class GeminiClient with its rate limiter (_apply_rate_limit and         *)
(* _apply_rate_limit_sync), the prompt assembly of generate and            *)
(* generate_sync, and the reasoning extraction of generate_with_reasoning. *)
(*                                                                         *)
(* Time is counted in whole seconds.  The configured ceilings divide 60,   *)
(* so the float 60.0 / rate_limit is an exact integer.                     *)
(*                                                                         *)
(* Scheduling: a call runs without interruption from one suspension point  *)
(* to the next (asyncio runs a coroutine until its next await; time.sleep  *)
(* and the blocking capability call are where a generate_sync caller       *)
(* yields the processor).  Calls of different callers interleave at these  *)
(* points.  The clock (time.time()) never runs backwards.                  *)
(*                                                                         *)
(* A call's context argument is read only after the limiter's wait (lines  *)
(* 108 and 142), and nothing else reads or changes it: the protocol model  *)
(* draws it at the step that reads it.                                     *)
(***************************************************************************)
EXTENDS Integers, Sequences, FiniteSets, TLC

(***************************************************************************)
(* Bounds of the model.                                                    *)
(***************************************************************************)
NumCallers == 2      \* logical callers sharing the one adapter
MaxContextLen == 2   \* entries of a conversation history
MaxTokens == 4       \* pieces a capability reply is put together from
StartTime == 3       \* time.time() at construction; exceeds every interval
MaxTicks == 2        \* seconds the clock may advance

Callers == 1..NumCallers
MaxTime == StartTime + MaxTicks
NoTime == 0 - 1     \* no time recorded: below every value of the clock

(***************************************************************************)
(* Configuration: config["ai"]["rate_limit"], possibly absent.             *)
(***************************************************************************)
DefaultRateLimit == 60
SecondsPerMinute == 60
DefaultModel == "gemini-3-pro"

\* config.get("ai", {}): the keys it may hold; a key that is absent carries
\* the default in the record
AiConfig(hasModel, model, hasRate, rl) ==
    [hasModel |-> hasModel, model |-> model, hasRate |-> hasRate, rate_limit |-> rl]

AiConfigs ==
    {AiConfig(FALSE, DefaultModel, FALSE, DefaultRateLimit),
     AiConfig(TRUE, "gemini-3-flash", TRUE, 30),
     AiConfig(FALSE, DefaultModel, TRUE, 0),
     AiConfig(FALSE, DefaultModel, TRUE, -60)}

\* ai_config.get("model", "gemini-3-pro")
ModelName(ai_config) ==
    IF ai_config.hasModel THEN ai_config.model ELSE DefaultModel

\* ai_config.get("rate_limit", 60)
RateLimit(ai_config) ==
    IF ai_config.hasRate THEN ai_config.rate_limit ELSE DefaultRateLimit

\* mutant: the quotient taken the wrong way round, rate_limit / 60.0
MinRequestIntervalInverted(rl) ==
    IF rl > 0 THEN rl \div SecondsPerMinute ELSE 0

\* mutant: a ceiling that is not positive falls back to a full minute
MinRequestIntervalNoZeroGuard(rl) ==
    IF rl > 0 THEN SecondsPerMinute \div rl ELSE SecondsPerMinute

\* 60.0 / self.rate_limit if self.rate_limit > 0 else 0
MinRequestInterval(rl) ==
    IF rl > 0 THEN SecondsPerMinute \div rl ELSE 0

(***************************************************************************)
(* Conversation history.  An entry of the context list is a message object *)
(* (it has .content and .type), a raw dict, or anything else.  A dict is   *)
(* modelled with presence flags for the keys the code reads with .get.     *)
(***************************************************************************)
Message(type, content) ==
    [shape |-> "message", type |-> type, content |-> content,
     hasRole |-> FALSE, role |-> "", hasParts |-> FALSE, parts |-> <<>>]

Dict(hasRole, role, hasParts, parts) ==
    [shape |-> "dict", type |-> "", content |-> "",
     hasRole |-> hasRole, role |-> role, hasParts |-> hasParts, parts |-> parts]

Other(content) ==
    [shape |-> "other", type |-> "", content |-> content,
     hasRole |-> FALSE, role |-> "", hasParts |-> FALSE, parts |-> <<>>]

Part(text) == [hasText |-> TRUE, text |-> text]

\* The turn {"role": role, "parts": [{"text": text}]}
Turn(role, text) == Dict(TRUE, role, TRUE, <<Part(text)>>)

\* context=None, and context=[...]
NoContext == [isNone |-> TRUE, items |-> <<>>]
ContextOf(items) == [isNone |-> FALSE, items |-> items]

\* Python truth value of the context argument: None and [] are false
Truthy(context) == ~context.isNone /\ Len(context.items) > 0

\* _format_context, one entry: the list of dicts it appends
FormatEntry(msg) ==
    IF msg.shape = "message"
    THEN <<Turn(IF msg.type = "human" THEN "user" ELSE "model", msg.content)>>
    ELSE IF msg.shape = "dict" THEN <<msg>> ELSE <<>>

\* mutant: each entry is put in front of the entries formatted so far
RECURSIVE FormatItemsReversed(_)
FormatItemsReversed(items) ==
    IF items = <<>> THEN <<>>
    ELSE FormatItemsReversed(Tail(items)) \o FormatEntry(Head(items))

RECURSIVE FormatItems(_)
FormatItems(items) ==
    IF items = <<>> THEN <<>>
    ELSE FormatEntry(Head(items)) \o FormatItems(Tail(items))

\* GeminiClient._format_context
FormatContext(context) ==
    IF Truthy(context) THEN FormatItems(context.items) ELSE <<>>

\* msg.get('parts', [{'text': ''}])
PartsOf(msg) == IF msg.hasParts THEN msg.parts ELSE <<Part("")>>

\* [0] of an empty list raises IndexError
LineRaises(msg) == Len(PartsOf(msg)) = 0

\* f"{msg.get('role', 'user')}: {msg.get('parts', [{'text': ''}])[0].get('text', '')}"
Line(msg) ==
    (IF msg.hasRole THEN msg.role ELSE "user") \o ": " \o
    (IF PartsOf(msg)[1].hasText THEN PartsOf(msg)[1].text ELSE "")

\* "\n".join(lines)
RECURSIVE Join(_)
Join(lines) ==
    IF lines = <<>> THEN ""
    ELSE IF Len(lines) = 1 THEN lines[1]
    ELSE lines[1] \o "\n" \o Join(Tail(lines))

\* the list comprehension over self._format_context(context), joined
FormattedHistory(context) ==
    LET msgs == FormatContext(context) IN
    IF \E i \in 1..Len(msgs) : LineRaises(msgs[i])
    THEN [raised |-> TRUE, text |-> ""]
    ELSE [raised |-> FALSE, text |-> Join([i \in 1..Len(msgs) |-> Line(msgs[i])])]

\* f"Previous conversation:\n{formatted_history}\n\nCurrent user request:\n{prompt}"
WithHistory(formatted_history, prompt) ==
    "Previous conversation:\n" \o formatted_history \o
    "\n\nCurrent user request:\n" \o prompt

\* mutant: the preamble is built whether or not there is any history
FullPromptNoGuard(prompt, context) ==
    LET h == FormattedHistory(context) IN
    IF h.raised THEN [raised |-> TRUE, text |-> ""]
    ELSE [raised |-> FALSE, text |-> WithHistory(h.text, prompt)]

\* generate: full_prompt, or the exception raised while building it
FullPrompt(prompt, context) ==
    IF ~Truthy(context) THEN [raised |-> FALSE, text |-> prompt]
    ELSE LET h == FormattedHistory(context) IN
         IF h.raised THEN [raised |-> TRUE, text |-> ""]
         ELSE IF h.text # "" THEN [raised |-> FALSE, text |-> WithHistory(h.text, prompt)]
         ELSE [raised |-> FALSE, text |-> prompt]

\* mutant: the blocking path passes the caller's prompt on without history
FullPromptSyncPlain(prompt, context) == [raised |-> FALSE, text |-> prompt]

\* generate_sync: its own copy of the same assembly
FullPromptSync(prompt, context) ==
    IF ~Truthy(context) THEN [raised |-> FALSE, text |-> prompt]
    ELSE LET h == FormattedHistory(context) IN
         IF h.raised THEN [raised |-> TRUE, text |-> ""]
         ELSE IF h.text # "" THEN [raised |-> FALSE, text |-> WithHistory(h.text, prompt)]
         ELSE [raised |-> FALSE, text |-> prompt]


(***************************************************************************)
(* The capability's reply is a Python str, modelled as the sequence of its *)
(* characters so that find, slicing and strip work on character offsets.   *)
(***************************************************************************)
\* "REASONING:"
ReasoningMark ==
    <<"R","E","A","S","O","N","I","N","G",":">>

\* "RESPONSE:"
ResponseMark ==
    <<"R","E","S","P","O","N","S","E",":">>

\* "Parsing failed, check format."
ParsingFailed ==
    <<"P","a","r","s","i","n","g"," ","f","a","i","l","e","d",","," ","c",
      "h","e","c","k"," ","f","o","r","m","a","t",".">>

\* "Error parsing response structure"
ErrorParsing ==
    <<"E","r","r","o","r"," ","p","a","r","s","i","n","g"," ","r","e","s",
      "p","o","n","s","e"," ","s","t","r","u","c","t","u","r","e">>

\* "No explicit reasoning provided"
NoExplicitReasoning ==
    <<"N","o"," ","e","x","p","l","i","c","i","t"," ","r","e","a","s","o",
      "n","i","n","g"," ","p","r","o","v","i","d","e","d">>

\* str.strip() with no argument removes these from both ends
Whitespace == {" ", "\n", "\t"}

\* sub occurs in s at 0-based offset i
OccursAt(s, sub, i) ==
    /\ i >= 0
    /\ i + Len(sub) <= Len(s)
    /\ \A k \in 1..Len(sub) : s[i + k] = sub[k]

\* sub in s
In(sub, s) == \E i \in 0..Len(s) : OccursAt(s, sub, i)

\* s.find(sub): the lowest offset, or -1
Find(s, sub) ==
    IF \E i \in 0..Len(s) : OccursAt(s, sub, i)
    THEN CHOOSE i \in 0..Len(s) :
            /\ OccursAt(s, sub, i)
            /\ \A j \in 0..(i - 1) : ~OccursAt(s, sub, j)
    ELSE -1

Min(a, b) == IF a <= b THEN a ELSE b
Max(a, b) == IF a >= b THEN a ELSE b

\* s[a:b] for a >= 0: offsets are clamped to len(s); empty when a >= b.
\* A negative b counts from the end, as Python's slicing does.
Slice(s, a, b) ==
    LET hi == IF b < 0 THEN Max(Len(s) + b, 0) ELSE Min(b, Len(s))
        lo == Min(a, Len(s))
    IN  IF lo >= hi THEN <<>> ELSE SubSeq(s, lo + 1, hi)

\* s[a:]
SliceFrom(s, a) == Slice(s, a, Len(s))

RECURSIVE LStrip(_)
LStrip(s) ==
    IF s # <<>> /\ Head(s) \in Whitespace THEN LStrip(Tail(s)) ELSE s

RECURSIVE RStrip(_)
RStrip(s) ==
    IF s # <<>> /\ s[Len(s)] \in Whitespace
    THEN RStrip(SubSeq(s, 1, Len(s) - 1)) ELSE s

\* s.strip()
Strip(s) == RStrip(LStrip(s))

\* mutant: the slices start at the markers, not behind them
ExtractPartsFromMarker(response) ==
    IF In(ReasoningMark, response) /\ In(ResponseMark, response)
    THEN LET reasoning_idx == Find(response, ReasoningMark)
             response_idx == Find(response, ResponseMark)
         IN  [reasoning |-> Strip(Slice(response, reasoning_idx, response_idx)),
              response |-> Strip(SliceFrom(response, response_idx))]
    ELSE [reasoning |-> NoExplicitReasoning, response |-> response]

\* mutant: the outer test is 'or', so a text with one marker reaches the
\* index check and falls into its else branch
ExtractPartsEitherMarker(response) ==
    IF In(ReasoningMark, response) \/ In(ResponseMark, response)
    THEN LET reasoning_idx == Find(response, ReasoningMark)
             response_idx == Find(response, ResponseMark)
         IN  IF reasoning_idx # -1 /\ response_idx # -1
             THEN [reasoning |->
                       Strip(Slice(response, reasoning_idx + Len(ReasoningMark),
                                   response_idx)),
                   response |->
                       Strip(SliceFrom(response, response_idx + Len(ResponseMark)))]
             ELSE [reasoning |-> ParsingFailed, response |-> response]
    ELSE [reasoning |-> NoExplicitReasoning, response |-> response]

\* generate_with_reasoning, lines 184-209: the parts dict parsed out of the
\* text generate returned.  find, slicing and strip raise nothing on a str,
\* so the except branch assigns nothing in any run; it is kept as written.
ExtractParts(response) ==
    IF In(ReasoningMark, response) /\ In(ResponseMark, response)
    THEN LET reasoning_idx == Find(response, ReasoningMark)
             response_idx == Find(response, ResponseMark)
         IN  IF reasoning_idx # -1 /\ response_idx # -1
             THEN [reasoning |->
                       Strip(Slice(response, reasoning_idx + Len(ReasoningMark),
                                   response_idx)),
                   response |->
                       Strip(SliceFrom(response, response_idx + Len(ResponseMark)))]
             ELSE [reasoning |-> ParsingFailed, response |-> response]
    ELSE [reasoning |-> NoExplicitReasoning, response |-> response]


VARIABLES
    now,                    \* time.time()
    model_name,             \* self.model_name
    rate_limit,             \* self.rate_limit
    min_request_interval,   \* self._min_request_interval
    last_request_time,      \* self._last_request_time
    task,                   \* per caller: the call it is in
    dispatch,               \* the capability call the last step made, if any
    outcome,                \* the call the last step ended, as its caller saw it
    lastDispatch,           \* history: time of the latest capability call
    doneMax,                \* history: latest dispatch time of a finished call
    callArgs,               \* prompt assembly: prompt, system_prompt, context
    sent,                   \* prompt assembly: what each path passed downstream
    extraction              \* reasoning extraction: the reply and its parts

adapterVars == <<now, model_name, rate_limit, min_request_interval,
                 last_request_time, task, dispatch, outcome, lastDispatch,
                 doneMax>>
pureVars == <<callArgs, sent, extraction>>
vars == <<now, model_name, rate_limit, min_request_interval,
          last_request_time, task, dispatch, outcome, lastDispatch, doneMax,
          callArgs, sent, extraction>>

(***************************************************************************)
(* Arguments and replies of the calls of the protocol model.               *)
(***************************************************************************)
MainPrompt == "next?"
NoSystemPrompt == [isNone |-> TRUE, text |-> ""]
SystemPrompt(text) == [isNone |-> FALSE, text |-> text]

\* no history, and a history holding a dict whose 'parts' list is empty
MainContexts ==
    {NoContext, ContextOf(<<Dict(TRUE, "user", TRUE, <<>>)>>)}

\* texts the capability may answer with
MainReplies ==
    {<<>>,
     ReasoningMark \o <<" ", "x", "\n">> \o ResponseMark \o <<" ", "y">>}

\* generate_with_reasoning: enhanced_prompt
EnhancedPrompt(prompt) ==
    prompt \o "\n\nPlease structure your response as:\n" \o
    "1. REASONING: Explain your thought process and decision-making\n" \o
    "2. RESPONSE: Provide your final answer or recommendation\n"

NoParts == [reasoning |-> <<>>, response |-> <<>>]
NoResult == [status |-> "none", text |-> <<>>, parts |-> NoParts, error |-> "none"]
Returned(text) ==
    [status |-> "returned", text |-> text, parts |-> NoParts, error |-> "none"]
ReturnedParts(parts) ==
    [status |-> "returned", text |-> <<>>, parts |-> parts, error |-> "none"]

\* mutant: the handler logs the exception and returns an empty string
Swallow(e) == [status |-> "returned", text |-> <<>>, parts |-> NoParts, error |-> "none"]

\* except Exception as e: self.logger.error(...); raise
Reraise(e) == [status |-> "raised", text |-> <<>>, parts |-> NoParts, error |-> e]

IdleTask ==
    [pc |-> "idle", kind |-> "none", wakeAt |-> NoTime, floor |-> NoTime,
     dispAt |-> NoTime, nStamp |-> 0, nDispatch |-> 0]

\* the last step ended no call
NoOutcome ==
    [kind |-> "none", capability |-> "none", result |-> NoResult,
     dispAt |-> NoTime, nStamp |-> 0, nDispatch |-> 0]

\* the last step called the capability for no one
NoDispatch ==
    [kind |-> "none", at |-> NoTime, floor |-> NoTime, prev |-> NoTime,
     prompt |-> "", system_prompt |-> NoSystemPrompt]

\* a caller enters generate / generate_sync / generate_with_reasoning;
\* floor remembers the latest dispatch among the calls that are already over
NewTask(kind) ==
    [IdleTask EXCEPT !.kind = kind, !.floor = doneMax]

\* self._last_request_time = 0.0
InitialLastRequestTime == 0

\* arguments, capability calls and replies before any are drawn
NoArgs ==
    [prompt |-> "", system_prompt |-> NoSystemPrompt, context |-> NoContext]
NotCalled ==
    [called |-> FALSE, raised |-> FALSE, prompt |-> "",
     system_prompt |-> NoSystemPrompt]
NothingSent == [generate |-> NotCalled, generate_sync |-> NotCalled]
NoExtraction == [raw |-> <<>>, done |-> FALSE, parts |-> NoParts]

\* GeminiClient.__init__ has returned
Constructed(configs) ==
    /\ now = StartTime
    /\ \E ai_config \in configs :
          /\ model_name = ModelName(ai_config)
          /\ rate_limit = RateLimit(ai_config)
          /\ min_request_interval = MinRequestInterval(RateLimit(ai_config))
    /\ last_request_time = InitialLastRequestTime
    /\ task = [c \in Callers |-> IdleTask]
    /\ dispatch = NoDispatch
    /\ outcome = NoOutcome
    /\ lastDispatch = NoTime
    /\ doneMax = NoTime

Init ==
    /\ Constructed(AiConfigs)
    /\ callArgs = NoArgs
    /\ sent = NothingSent
    /\ extraction = NoExtraction

(***************************************************************************)
(* The rate limiter.                                                       *)
(***************************************************************************)
\* mutant: the caller sleeps for the whole interval, not for the deficit
RateLimitWaitFullInterval(interval, last, t) ==
    IF interval > 0
    THEN LET elapsed == t - last IN
         IF elapsed < interval
         THEN [sleep |-> TRUE, wait_time |-> interval]
         ELSE [sleep |-> FALSE, wait_time |-> 0]
    ELSE [sleep |-> FALSE, wait_time |-> 0]

\* _apply_rate_limit up to its await: whether it sleeps, and for how long
RateLimitWait(interval, last, t) ==
    IF interval > 0
    THEN LET elapsed == t - last IN
         IF elapsed < interval
         THEN [sleep |-> TRUE, wait_time |-> interval - elapsed]
         ELSE [sleep |-> FALSE, wait_time |-> 0]
    ELSE [sleep |-> FALSE, wait_time |-> 0]

\* _apply_rate_limit_sync up to its time.sleep
RateLimitWaitSync(interval, last, t) ==
    IF interval > 0
    THEN LET elapsed == t - last IN
         IF elapsed < interval
         THEN [sleep |-> TRUE, wait_time |-> interval - elapsed]
         ELSE [sleep |-> FALSE, wait_time |-> 0]
    ELSE [sleep |-> FALSE, wait_time |-> 0]

\* mutant: after a sleep the time the sleep was due to end is stored, not a
\* fresh reading of the clock
StampScheduled(c) == IF task[c].pc = "sleeping" THEN task[c].wakeAt ELSE now

\* self._last_request_time = time.time(), the last line of both limiters
Stamp(c) == now

\* the prompt the call hands on: generate_with_reasoning passes enhanced_prompt
PromptOf(tk) ==
    IF tk.kind = "generate_with_reasoning" THEN EnhancedPrompt(MainPrompt)
    ELSE MainPrompt

\* full_prompt as the call's own path builds it
BuiltPrompt(tk, context) ==
    IF tk.kind = "generate_sync" THEN FullPromptSync(PromptOf(tk), context)
    ELSE FullPrompt(PromptOf(tk), context)

\* what the caller sees when its call is over: what the capability did
\* ("none": it was not reached), the value returned or the exception raised,
\* when the call dispatched, and the counts of what the call did
Ended(tk, capability, result) ==
    [kind |-> tk.kind, capability |-> capability, result |-> result,
     dispAt |-> tk.dispAt, nStamp |-> tk.nStamp, nDispatch |-> tk.nDispatch]

\* The rest of generate / generate_sync once the limiter's wait is over, up
\* to the capability call: the timestamp write, the prompt assembly and
\* self.service.generate(...).  Nothing suspends in between.
Proceed(c, tk, context) ==
    LET fp == BuiltPrompt(tk, context)
        stamped == [tk EXCEPT !.nStamp = @ + 1]
    IN  /\ last_request_time' = Stamp(c)
        /\ IF fp.raised
           THEN /\ task' = [task EXCEPT ![c] = IdleTask]
                /\ outcome' = Ended(stamped, "none", Reraise("IndexError"))
                /\ dispatch' = NoDispatch
                /\ UNCHANGED lastDispatch
           ELSE /\ task' = [task EXCEPT ![c] =
                        [stamped EXCEPT !.pc = "awaiting", !.dispAt = now,
                                        !.wakeAt = NoTime, !.floor = NoTime,
                                        !.nDispatch = @ + 1]]
                /\ dispatch' =
                        [kind |-> tk.kind, at |-> now,
                         floor |-> tk.floor, prev |-> lastDispatch,
                         prompt |-> fp.text, system_prompt |-> NoSystemPrompt]
                /\ outcome' = NoOutcome
                /\ lastDispatch' = now
        /\ UNCHANGED <<model_name, rate_limit, min_request_interval, doneMax>>

\* mutant: the deficit is stored over the configured interval
\* (self._min_request_interval = self._min_request_interval - elapsed)
SuspendOverwritesInterval(c, tk, wait_time) ==
    /\ task' = [task EXCEPT ![c] =
            [tk EXCEPT !.pc = "sleeping", !.wakeAt = now + wait_time]]
    /\ dispatch' = NoDispatch
    /\ outcome' = NoOutcome
    /\ min_request_interval' = wait_time
    /\ UNCHANGED <<model_name, rate_limit, last_request_time, lastDispatch,
                   doneMax>>

\* the limiter suspends the call: await asyncio.sleep / time.sleep
Suspend(c, tk, wait_time) ==
    /\ task' = [task EXCEPT ![c] =
            [tk EXCEPT !.pc = "sleeping", !.wakeAt = now + wait_time]]
    /\ dispatch' = NoDispatch
    /\ outcome' = NoOutcome
    /\ UNCHANGED <<model_name, rate_limit, min_request_interval,
                   last_request_time, lastDispatch, doneMax>>

\* calls are started up to MaxTime; a call under way runs to its end
CanStart(c) == task[c].pc = "idle" /\ now <= MaxTime

\* await client.generate(prompt, system_prompt, context), to its first await
Generate(c) ==
    /\ CanStart(c)
    /\ LET tk == NewTask("generate")
           w == RateLimitWait(min_request_interval, last_request_time, now)
       IN  IF w.sleep THEN Suspend(c, tk, w.wait_time)
           ELSE \E context \in MainContexts : Proceed(c, tk, context)
    /\ UNCHANGED now
    /\ UNCHANGED pureVars

\* client.generate_sync(prompt, system_prompt, context), to its first block
GenerateSync(c) ==
    /\ CanStart(c)
    /\ LET tk == NewTask("generate_sync")
           w == RateLimitWaitSync(min_request_interval, last_request_time, now)
       IN  IF w.sleep THEN Suspend(c, tk, w.wait_time)
           ELSE \E context \in MainContexts : Proceed(c, tk, context)
    /\ UNCHANGED now
    /\ UNCHANGED pureVars

\* await client.generate_with_reasoning(...): builds enhanced_prompt and
\* awaits self.generate(enhanced_prompt, system_prompt, context)
GenerateWithReasoning(c) ==
    /\ CanStart(c)
    /\ LET tk == NewTask("generate_with_reasoning")
           w == RateLimitWait(min_request_interval, last_request_time, now)
       IN  IF w.sleep THEN Suspend(c, tk, w.wait_time)
           ELSE \E context \in MainContexts : Proceed(c, tk, context)
    /\ UNCHANGED now
    /\ UNCHANGED pureVars

\* mutant: the limiter is a loop: after the sleep it computes the deficit
\* again and goes back to sleep when another call has stamped in between
SleepReturnsRechecks(c) ==
    /\ task[c].pc = "sleeping"
    /\ task[c].kind # "generate_sync"
    /\ now >= task[c].wakeAt
    /\ LET w == RateLimitWait(min_request_interval, last_request_time, now)
       IN  IF w.sleep THEN Suspend(c, task[c], w.wait_time)
           ELSE \E context \in MainContexts : Proceed(c, task[c], context)
    /\ UNCHANGED now
    /\ UNCHANGED pureVars

\* asyncio.sleep(wait_time) is over: the coroutine resumes in _apply_rate_limit
SleepReturns(c) ==
    /\ task[c].pc = "sleeping"
    /\ task[c].kind # "generate_sync"
    /\ now >= task[c].wakeAt
    /\ \E context \in MainContexts : Proceed(c, task[c], context)
    /\ UNCHANGED now
    /\ UNCHANGED pureVars

\* time.sleep(wait_time) is over: the caller resumes in _apply_rate_limit_sync
SleepSyncReturns(c) ==
    /\ task[c].pc = "sleeping"
    /\ task[c].kind = "generate_sync"
    /\ now >= task[c].wakeAt
    /\ \E context \in MainContexts : Proceed(c, task[c], context)
    /\ UNCHANGED now
    /\ UNCHANGED pureVars

\* what the call returns for the text the capability answered
ResultOf(tk, reply) ==
    IF tk.kind = "generate_with_reasoning"
    THEN ReturnedParts(ExtractParts(reply))
    ELSE Returned(reply)

\* mutant: a failed call gives its slot back: the handler resets the
\* timestamp (self._last_request_time = 0.0) before it re-raises
FinishRollsBack(c, capability, result) ==
    /\ task' = [task EXCEPT ![c] = IdleTask]
    /\ outcome' = Ended(task[c], capability, result)
    /\ dispatch' = NoDispatch
    /\ doneMax' = Max(doneMax, task[c].dispAt)
    /\ last_request_time' =
           IF capability = "raise" THEN InitialLastRequestTime
           ELSE last_request_time
    /\ UNCHANGED <<now, model_name, rate_limit, min_request_interval,
                   lastDispatch>>
    /\ UNCHANGED pureVars

\* the call is over: it returned or raised to its caller
Finish(c, capability, result) ==
    /\ task' = [task EXCEPT ![c] = IdleTask]
    /\ outcome' = Ended(task[c], capability, result)
    /\ dispatch' = NoDispatch
    /\ doneMax' = Max(doneMax, task[c].dispAt)
    /\ UNCHANGED <<now, model_name, rate_limit, min_request_interval,
                   last_request_time, lastDispatch>>
    /\ UNCHANGED pureVars

\* self.service.generate / generate_sync answers with a text
ServiceReturns(c) ==
    /\ task[c].pc = "awaiting"
    /\ \E reply \in MainReplies : Finish(c, "text", ResultOf(task[c], reply))

\* self.service.generate / generate_sync raises
ServiceRaises(c) ==
    /\ task[c].pc = "awaiting"
    /\ Finish(c, "raise", Reraise("ServiceError"))

\* the clock advances
Tick ==
    /\ now < MaxTime
    /\ now' = now + 1
    /\ dispatch' = NoDispatch
    /\ outcome' = NoOutcome
    /\ UNCHANGED <<model_name, rate_limit, min_request_interval,
                   last_request_time, task, lastDispatch, doneMax>>
    /\ UNCHANGED pureVars

\* the clock advances, also beyond MaxTime while a call's sleep is not over
TickLive ==
    /\ \/ now < MaxTime
       \/ \E c \in Callers : task[c].pc = "sleeping" /\ task[c].wakeAt > now
    /\ now' = now + 1
    /\ dispatch' = NoDispatch
    /\ outcome' = NoOutcome
    /\ UNCHANGED <<model_name, rate_limit, min_request_interval,
                   last_request_time, task, lastDispatch, doneMax>>
    /\ UNCHANGED pureVars

Next ==
    \/ \E c \in Callers : Generate(c)
    \/ \E c \in Callers : GenerateSync(c)
    \/ \E c \in Callers : GenerateWithReasoning(c)
    \/ \E c \in Callers : SleepReturns(c)
    \/ \E c \in Callers : SleepSyncReturns(c)
    \/ \E c \in Callers : ServiceReturns(c)
    \/ \E c \in Callers : ServiceRaises(c)
    \/ Tick

Spec == Init /\ [][Next]_vars

(***************************************************************************)
(* The calls under fair scheduling: the clock keeps advancing, the event   *)
(* loop (the operating system, for time.sleep) resumes a call whose sleep  *)
(* is over, and the capability answers or fails every call made to it.     *)
(***************************************************************************)
NextLive ==
    \/ \E c \in Callers : Generate(c)
    \/ \E c \in Callers : GenerateSync(c)
    \/ \E c \in Callers : GenerateWithReasoning(c)
    \/ \E c \in Callers : SleepReturns(c)
    \/ \E c \in Callers : SleepSyncReturns(c)
    \/ \E c \in Callers : ServiceReturns(c)
    \/ \E c \in Callers : ServiceRaises(c)
    \/ TickLive

Fairness ==
    /\ WF_vars(TickLive)
    /\ \A c \in Callers :
          /\ WF_vars(SleepReturns(c))
          /\ WF_vars(SleepSyncReturns(c))
          /\ WF_vars(ServiceReturns(c) \/ ServiceRaises(c))

SpecLive == Init /\ [][NextLive]_vars /\ Fairness

(***************************************************************************)
(* Properties of the rate limiter and of the calls (specification Spec).   *)
(***************************************************************************)
Dispatched == dispatch.kind # "none"
CallEnded == outcome.kind # "none"

\* C1: with ceiling R > 0, a call that starts after another call is over
\* dispatches at least 60/R seconds after that call dispatched, whichever of
\* generate, generate_sync and generate_with_reasoning the two calls went
\* through.  dispatch.floor is the latest dispatch time among the calls that
\* were over when the dispatching call started.
C1_BackToBackSpacing ==
    (rate_limit > 0 /\ Dispatched /\ dispatch.floor # NoTime)
        => rate_limit * (dispatch.at - dispatch.floor) >= SecondsPerMinute

\* C1 witness: a generate_sync call that followed a finished call had to wait
\* and dispatched exactly 60/R seconds after it.
C1_Witness ==
    /\ rate_limit > 0
    /\ dispatch.kind = "generate_sync"
    /\ dispatch.floor # NoTime
    /\ dispatch.at > dispatch.floor
    /\ rate_limit * (dispatch.at - dispatch.floor) = SecondsPerMinute

\* C2 (as claimed): with ceiling R > 0 the limiter's read, wait and write are
\* one critical section: no two calls wait on a deficit computed from the same
\* value of the timestamp (a sleeping call read the value wakeAt - interval),
\* and every dispatch is at least 60/R seconds after the dispatch before it.
C2_LimiterIsCriticalSection ==
    rate_limit > 0 =>
        /\ \A c1, c2 \in Callers :
              (c1 # c2 /\ task[c1].pc = "sleeping" /\ task[c2].pc = "sleeping")
                  => task[c1].wakeAt # task[c2].wakeAt
        /\ (Dispatched /\ dispatch.prev # NoTime)
              => rate_limit * (dispatch.at - dispatch.prev) >= SecondsPerMinute

\* C3: with a ceiling of 0 no call is ever inside the limiter's wait, every
\* dispatch finds the timestamp set to the current time, and every call that
\* ends has written the timestamp once.
C3_ZeroCeilingNeverWaits ==
    rate_limit = 0 =>
        /\ \A c \in Callers : task[c].pc # "sleeping"
        /\ Dispatched => last_request_time = now
        /\ CallEnded => outcome.nStamp = 1

\* C3 witness: with ceiling 0 a call is dispatched in the same second as the
\* dispatch before it.
C3_Witness ==
    /\ rate_limit = 0
    /\ Dispatched
    /\ dispatch.prev = dispatch.at
    /\ last_request_time = now

\* C4: no step lowers the last-request timestamp.
C4_TimestampMonotone == [][last_request_time' >= last_request_time]_vars

\* C4 witness: a dispatch that replaced the stamp of an earlier dispatch by a
\* later time, made by a call that had slept while another call stamped.
C4_Witness ==
    /\ Dispatched
    /\ dispatch.prev # NoTime
    /\ last_request_time > dispatch.prev
    /\ \E c \in Callers : task[c].pc = "sleeping"

\* C5: a generate or generate_sync call whose capability call raised ends by
\* raising that exception, never by returning a value, and no call invokes
\* the capability more than once.
C5_FailurePropagates ==
    /\ (outcome.kind \in {"generate", "generate_sync"} /\ outcome.capability = "raise")
          => /\ outcome.result.status = "raised"
             /\ outcome.result.error = "ServiceError"
             /\ outcome.nDispatch = 1
    /\ outcome.nDispatch <= 1
    /\ \A c \in Callers : task[c].nDispatch <= 1

\* C5 witness: a generate_sync call ended by raising the capability's failure.
C5_Witness ==
    /\ outcome.kind = "generate_sync"
    /\ outcome.capability = "raise"
    /\ outcome.result.status = "raised"

(***************************************************************************)
(* Prompt assembly on its own: one set of arguments handed to generate and *)
(* to generate_sync, and what each passes to the capability.               *)
(***************************************************************************)
PromptTexts == {"next?", ""}
SystemPrompts == {NoSystemPrompt, SystemPrompt("be brief")}

\* message objects, well-formed dicts, {} , a dict with 'parts': [], a dict
\* whose part has no 'text', and a bare string
Entries ==
    {Message("human", "hi"), Message("ai", "hello"),
     Turn("user", "hi"), Turn("model", "hello"),
     Dict(FALSE, "", FALSE, <<>>),
     Dict(TRUE, "user", TRUE, <<>>),
     Dict(TRUE, "model", TRUE, <<[hasText |-> FALSE, text |-> ""]>>),
     Other("hi")}

Contexts ==
    {NoContext} \cup
    UNION {{ContextOf(items) : items \in [1..n -> Entries]} : n \in 0..MaxContextLen}

\* the arguments self.service.generate / generate_sync is called with, or
\* the exception that kept the call from being made
Passed(fp, system_prompt) ==
    [called |-> TRUE, raised |-> fp.raised, prompt |-> fp.text,
     system_prompt |-> IF fp.raised THEN NoSystemPrompt ELSE system_prompt]

InitPrompt ==
    /\ Constructed({AiConfig(FALSE, DefaultModel, TRUE, 0)})
    /\ callArgs \in [prompt : PromptTexts, system_prompt : SystemPrompts,
                     context : Contexts]
    /\ sent = NothingSent
    /\ extraction = NoExtraction

\* generate, lines 107-122
GeneratePrompt ==
    /\ ~sent.generate.called
    /\ sent' = [sent EXCEPT !.generate =
            Passed(FullPrompt(callArgs.prompt, callArgs.context),
                   callArgs.system_prompt)]
    /\ UNCHANGED <<adapterVars, callArgs, extraction>>

\* generate_sync, lines 141-154
GenerateSyncPrompt ==
    /\ ~sent.generate_sync.called
    /\ sent' = [sent EXCEPT !.generate_sync =
            Passed(FullPromptSync(callArgs.prompt, callArgs.context),
                   callArgs.system_prompt)]
    /\ UNCHANGED <<adapterVars, callArgs, extraction>>

NextPrompt == GeneratePrompt \/ GenerateSyncPrompt

SpecPrompt == InitPrompt /\ [][NextPrompt]_vars

(***************************************************************************)
(* Reasoning extraction on its own: a reply text and the parts parsed out  *)
(* of it.  Replies are put together from the two markers and a few         *)
(* characters; the two texts of the documentation are added as they are.   *)
(***************************************************************************)
Tokens == {ReasoningMark, ResponseMark, <<" ">>, <<"x">>, <<"R">>}

RECURSIVE Flatten(_)
Flatten(tokens) ==
    IF tokens = <<>> THEN <<>> ELSE Head(tokens) \o Flatten(Tail(tokens))

\* "REASONING: because X\nRESPONSE: do Y"
OrderedExample ==
    <<"R","E","A","S","O","N","I","N","G",":"," ","b","e","c","a","u","s",
      "e"," ","X","\n","R","E","S","P","O","N","S","E",":"," ","d","o"," ",
      "Y">>

\* "RESPONSE: do Y\nREASONING: because X"
ReversedExample ==
    <<"R","E","S","P","O","N","S","E",":"," ","d","o"," ","Y","\n","R","E",
      "A","S","O","N","I","N","G",":"," ","b","e","c","a","u","s","e"," ",
      "X">>

RawTexts ==
    {OrderedExample, ReversedExample} \cup
    UNION {{Flatten(tokens) : tokens \in [1..n -> Tokens]} : n \in 0..MaxTokens}

InitExtract ==
    /\ Constructed({AiConfig(FALSE, DefaultModel, TRUE, 0)})
    /\ callArgs = NoArgs
    /\ sent = NothingSent
    /\ \E raw \in RawTexts :
          extraction = [raw |-> raw, done |-> FALSE, parts |-> NoParts]

\* generate_with_reasoning, lines 184-209, on the text generate returned
Extract ==
    /\ ~extraction.done
    /\ extraction' = [extraction EXCEPT !.done = TRUE,
                                        !.parts = ExtractParts(extraction.raw)]
    /\ UNCHANGED <<adapterVars, callArgs, sent>>

NextExtract == Extract

SpecExtract == InitExtract /\ [][NextExtract]_vars

(***************************************************************************)
(* Properties of the prompt assembly (specification SpecPrompt).           *)
(***************************************************************************)
Paths == {"generate", "generate_sync"}

\* path p called the capability
PassedOn(p) == sent[p].called /\ ~sent[p].raised

\* C6: when the context is None or an empty list the prompt passed to the
\* capability is the caller's prompt; and the prompt passed is the caller's
\* prompt behind the 'Previous conversation:' preamble exactly when the
\* history renders to a non-empty string, the caller's prompt otherwise.
C6_PreambleOnlyWithHistory ==
    \A p \in Paths : PassedOn(p) =>
        LET rendered == FormattedHistory(callArgs.context).text IN
        /\ (callArgs.context.isNone \/ callArgs.context.items = <<>>)
              => sent[p].prompt = callArgs.prompt
        /\ rendered = "" => sent[p].prompt = callArgs.prompt
        /\ rendered # "" =>
              sent[p].prompt =
                  "Previous conversation:\n" \o rendered
                      \o "\n\nCurrent user request:\n" \o callArgs.prompt

\* C6 witness: both paths were given an empty list as context and passed the
\* caller's prompt "next?" on as it is.
C6_Witness ==
    /\ callArgs.context = ContextOf(<<>>)
    /\ callArgs.prompt = "next?"
    /\ \A p \in Paths : PassedOn(p) /\ sent[p].prompt = "next?"

\* a history entry that carries a role and a text: a message object, or a
\* dict with 'role' and a first part with 'text'
IsTurn(e) ==
    \/ e.shape = "message"
    \/ /\ e.shape = "dict"
       /\ e.hasRole
       /\ e.hasParts
       /\ Len(e.parts) >= 1
       /\ e.parts[1].hasText

RoleOfTurn(e) ==
    IF e.shape = "message"
    THEN (IF e.type = "human" THEN "user" ELSE "model")
    ELSE e.role

TextOfTurn(e) == IF e.shape = "message" THEN e.content ELSE e.parts[1].text

\* the turns as '{role}: {text}' lines, oldest first, newline between lines
RECURSIVE RenderTurns(_)
RenderTurns(turns) ==
    LET n == Len(turns)
        last == RoleOfTurn(turns[n]) \o ": " \o TextOfTurn(turns[n])
    IN  IF n = 1 THEN last
        ELSE RenderTurns(SubSeq(turns, 1, n - 1)) \o "\n" \o last

\* C7: for a non-empty context made of role/text turns, both paths pass
\* 'Previous conversation:\n', the turns rendered in their original order,
\* '\n\nCurrent user request:\n' and then the caller's prompt.
C7_HistoryPrecedesPrompt ==
    \A p \in Paths :
        (/\ sent[p].called
         /\ ~callArgs.context.isNone
         /\ callArgs.context.items # <<>>
         /\ \A i \in 1..Len(callArgs.context.items) :
               IsTurn(callArgs.context.items[i]))
        => /\ ~sent[p].raised
           /\ sent[p].prompt =
                  "Previous conversation:\n"
                      \o RenderTurns(callArgs.context.items)
                      \o "\n\nCurrent user request:\n" \o callArgs.prompt

\* C7 witness: the turns ("user","hi"), ("model","hello") and the prompt
\* "next?" give the combined prompt of the documentation.
C7_Witness ==
    /\ callArgs.context = ContextOf(<<Turn("user", "hi"), Turn("model", "hello")>>)
    /\ callArgs.prompt = "next?"
    /\ PassedOn("generate")
    /\ sent.generate.prompt =
           "Previous conversation:\nuser: hi\nmodel: hello\n\nCurrent user request:\nnext?"

\* C8: given the same arguments, generate and generate_sync call the
\* capability with the same combined prompt and the same system prompt, and
\* when building the prompt raises in one it raises in the other.
C8_SyncAndAsyncAgree ==
    (sent.generate.called /\ sent.generate_sync.called)
        => /\ sent.generate.raised = sent.generate_sync.raised
           /\ sent.generate.prompt = sent.generate_sync.prompt
           /\ sent.generate.system_prompt = sent.generate_sync.system_prompt

\* C8 witness: both paths passed on the same prompt with a history preamble,
\* and the caller's system prompt.
C8_Witness ==
    /\ PassedOn("generate") /\ PassedOn("generate_sync")
    /\ sent.generate.prompt # callArgs.prompt
    /\ sent.generate_sync.prompt = sent.generate.prompt
    /\ ~callArgs.system_prompt.isNone
    /\ sent.generate_sync.system_prompt = callArgs.system_prompt

(***************************************************************************)
(* Properties of the reasoning extraction (specification SpecExtract).     *)
(***************************************************************************)
Blank == {" ", "\n", "\t"}

\* the first occurrence of the marker m in s starts at offset i
FirstMark(s, m, i) ==
    /\ i + Len(m) <= Len(s)
    /\ SubSeq(s, i + 1, i + Len(m)) = m
    /\ \A j \in 0..(i - 1) : SubSeq(s, j + 1, j + Len(m)) # m

\* t is s without the blanks at its two ends
IsTrimOf(t, s) ==
    \E a, b \in 0..Len(s) :
        /\ a + b <= Len(s)
        /\ t = SubSeq(s, a + 1, Len(s) - b)
        /\ \A k \in 1..a : s[k] \in Blank
        /\ \A k \in (Len(s) - b + 1)..Len(s) : s[k] \in Blank
        /\ t # <<>> => (t[1] \notin Blank /\ t[Len(t)] \notin Blank)

\* C9: when the first 'REASONING:' comes before the first 'RESPONSE:',
\* reasoning is the text between the end of the first and the start of the
\* second, trimmed, and response is the text behind the second, trimmed.
C9_OrderedMarkersSplit ==
    extraction.done =>
        \A i, j \in 0..Len(extraction.raw) :
            (/\ FirstMark(extraction.raw, ReasoningMark, i)
             /\ FirstMark(extraction.raw, ResponseMark, j)
             /\ i < j)
            => /\ IsTrimOf(extraction.parts.reasoning,
                           SubSeq(extraction.raw, i + Len(ReasoningMark) + 1, j))
               /\ IsTrimOf(extraction.parts.response,
                           SubSeq(extraction.raw, j + Len(ResponseMark) + 1,
                                  Len(extraction.raw)))

\* C9 witness: 'REASONING: because X\nRESPONSE: do Y' gives 'because X' and
\* 'do Y'.
C9_Witness ==
    /\ extraction.done
    /\ extraction.raw = OrderedExample
    /\ extraction.parts.reasoning =
       <<"b","e","c","a","u","s","e"," ","X">>
    /\ extraction.parts.response =
       <<"d","o"," ","Y">>

\* C10 (as claimed): when the first 'RESPONSE:' comes before the first
\* 'REASONING:', response is the raw text unchanged and reasoning is the
\* 'parsing failed' sentinel.
C10_ReversedMarkersParseFailure ==
    extraction.done =>
        \A i, j \in 0..Len(extraction.raw) :
            (/\ FirstMark(extraction.raw, ReasoningMark, i)
             /\ FirstMark(extraction.raw, ResponseMark, j)
             /\ j < i)
            => /\ extraction.parts.response = extraction.raw
               /\ extraction.parts.reasoning = ParsingFailed

\* the marker m occurs nowhere in s
Lacks(s, m) ==
    \A i \in 0..(Len(s) - Len(m)) : SubSeq(s, i + 1, i + Len(m)) # m

\* C11: when 'REASONING:' or 'RESPONSE:' (or both) is absent from the raw
\* text, response is the raw text unchanged and reasoning is the 'No explicit
\* reasoning provided' sentinel.
C11_MissingMarkerFallback ==
    (/\ extraction.done
     /\ Lacks(extraction.raw, ReasoningMark) \/ Lacks(extraction.raw, ResponseMark))
    => /\ extraction.parts.response = extraction.raw
       /\ extraction.parts.reasoning = NoExplicitReasoning

\* C11 witness: a text that holds 'RESPONSE:' but no 'REASONING:' came back
\* whole, with the sentinel as its reasoning.
C11_Witness ==
    /\ extraction.done
    /\ ~Lacks(extraction.raw, ResponseMark)
    /\ Lacks(extraction.raw, ReasoningMark)
    /\ extraction.parts.response = extraction.raw
    /\ extraction.parts.reasoning = NoExplicitReasoning

\* C12 (as claimed): the reasoning of a reply is never the empty string.
C12_ReasoningNeverEmpty ==
    extraction.done => extraction.parts.reasoning # <<>>

(***************************************************************************)
(* Further properties of the prompt assembly (specification SpecPrompt).   *)
(***************************************************************************)
\* the turn a history entry is claimed to become
ClaimedTurn(e) ==
    IF e.shape = "message"
    THEN Turn(IF e.type = "human" THEN "user" ELSE "model", e.content)
    ELSE IF e.shape = "dict" THEN e
    ELSE Turn("user", e.content)

\* C13 (as claimed): the formatter gives one turn per entry of the context,
\* in order: a message object becomes a 'user' or 'model' turn by its type, a
\* dict is passed through, and an entry of any other shape becomes a 'user'
\* turn holding its text; so a path that called the capability with a
\* context holding such an entry passed a prompt with the history preamble.
C13_FormatterKeepsEveryEntry ==
    \A p \in Paths : (sent[p].called /\ ~callArgs.context.isNone) =>
        LET items == callArgs.context.items IN
        /\ FormatContext(callArgs.context)
              = [i \in 1..Len(items) |-> ClaimedTurn(items[i])]
        /\ (PassedOn(p) /\ \E i \in 1..Len(items) : items[i].shape = "other")
              => sent[p].prompt # callArgs.prompt

(***************************************************************************)
(* Further properties of the rate limiter and of the calls (specification  *)
(* Spec).                                                                  *)
(***************************************************************************)
\* C14 (as claimed): no call is ever made on an adapter whose ceiling is
\* negative: construction rejects such a ceiling.
C14_NegativeCeilingRejected ==
    (Dispatched \/ CallEnded \/ \E c \in Callers : task[c].pc # "idle")
        => rate_limit >= 0

\* C15 (as claimed): a call writes the timestamp exactly once, and only as
\* it dispatches: a call in flight has written the timestamp as often as it
\* has called the capability, and a call that is over has done each once.
C15_StampOnlyAtDispatch ==
    /\ \A c \in Callers : task[c].nStamp = task[c].nDispatch
    /\ CallEnded => (outcome.nStamp = 1 /\ outcome.nDispatch = 1)

\* caller c enters a call in this step and the limiter puts it to sleep
StartsWaiting(c) == task[c].pc = "idle" /\ task'[c].pc = "sleeping"

\* some caller enters a call in this step and gets past the limiter without
\* sleeping: it dispatches, or the prompt assembly raises
StartsWithoutWaiting ==
    \E c \in Callers :
        /\ task[c].pc = "idle"
        /\ \/ task'[c].pc = "awaiting"
           \/ /\ task'[c].pc = "idle"
              /\ outcome'.kind # "none"
              /\ outcome'.capability = "none"
              /\ \A d \in Callers : task[d].pc = "sleeping" => task'[d].pc = "sleeping"

\* C16: with minimum interval I > 0 and elapsed = now - last-request
\* timestamp, a call that starts with elapsed < I sleeps for exactly
\* I - elapsed, which is more than 0 and at most I, and a call that starts
\* without sleeping found elapsed >= I.
C16_WaitIsTheDeficit ==
    [][min_request_interval > 0 =>
         LET elapsed == now - last_request_time IN
         /\ \A c \in Callers : StartsWaiting(c) =>
                LET wait_time == task'[c].wakeAt - now IN
                /\ elapsed < min_request_interval
                /\ wait_time = min_request_interval - elapsed
                /\ wait_time > 0
                /\ wait_time <= min_request_interval
         /\ StartsWithoutWaiting => elapsed >= min_request_interval]_vars

\* C16 witness: with interval 2 a call that started 1 second after the last
\* timestamp sleeps for the 1 second that is missing.
C16_Witness ==
    /\ min_request_interval = 2
    /\ last_request_time = now - 1
    /\ \E c \in Callers : task[c].pc = "sleeping" /\ task[c].wakeAt = now + 1

\* C19: no step of any call changes the model identifier, the ceiling or the
\* minimum interval, and the interval is the one derived from the ceiling at
\* construction; of the adapter's fields only the timestamp changes.
C19_OnlyTimestampChanges ==
    [][/\ model_name' = model_name
       /\ rate_limit' = rate_limit
       /\ min_request_interval' = min_request_interval
       /\ min_request_interval' = MinRequestInterval(rate_limit')]_vars

\* C19 witness: on the adapter built with model 'gemini-3-flash' and ceiling
\* 30 a call has failed; the timestamp has moved on from its initial value,
\* the configuration is as constructed.
C19_Witness ==
    /\ outcome.capability = "raise"
    /\ last_request_time > StartTime
    /\ model_name = "gemini-3-flash"
    /\ rate_limit = 30
    /\ min_request_interval = 2

\* C18 (as claimed): a generate_with_reasoning call whose capability call
\* raised ends by raising that exception, with no parts; a call that returned
\* parts had text from the capability; and every generate_with_reasoning
\* call that is over has written the timestamp once and called the
\* capability once.
C18_ReasoningCallPropagatesFailure ==
    outcome.kind = "generate_with_reasoning" =>
        /\ outcome.capability = "raise" =>
               /\ outcome.result.status = "raised"
               /\ outcome.result.error = "ServiceError"
               /\ outcome.result.parts = NoParts
        /\ outcome.result.status = "returned" => outcome.capability = "text"
        /\ outcome.nStamp = 1
        /\ outcome.nDispatch = 1

\* C20: the step in which a call's capability call fails leaves the
\* timestamp as it is, at or after the time of the failed attempt; and a
\* call started right after the failure, with interval I > 0, sleeps until
\* at least I after the failed attempt, or starts without sleeping only
\* when I has already passed since the attempt.
C20_FailedDispatchKeepsSlot ==
    [][/\ \A c \in Callers :
             (task[c].pc = "awaiting" /\ task'[c].pc = "idle"
                  /\ outcome'.capability = "raise")
             => /\ last_request_time' = last_request_time
                /\ last_request_time' >= task[c].dispAt
       /\ (outcome.capability = "raise" /\ min_request_interval > 0) =>
             /\ \A c \in Callers : StartsWaiting(c) =>
                    task'[c].wakeAt >= outcome.dispAt + min_request_interval
             /\ StartsWithoutWaiting =>
                    now >= outcome.dispAt + min_request_interval]_vars

\* C20 witness: with interval 2 a call failed 1 second after it dispatched;
\* the timestamp still holds the time of the attempt, so a retry made now
\* has 1 second left to wait.
C20_Witness ==
    /\ outcome.capability = "raise"
    /\ min_request_interval = 2
    /\ last_request_time = outcome.dispAt
    /\ now = outcome.dispAt + 1

(***************************************************************************)
(* Termination of the calls (specification SpecLive).                      *)
(***************************************************************************)
\* C17: a call that is asleep in the limiter does not go to sleep a second
\* time, its sleep is due to end no later than one interval after it began,
\* and every call that has started is over at some later time.
C17_EveryCallFinishes ==
    /\ [][\A c \in Callers :
             /\ task[c].pc = "sleeping"
                    => (task'[c].pc # "sleeping" \/ task'[c] = task[c])
             /\ StartsWaiting(c)
                    => task'[c].wakeAt <= now + min_request_interval]_vars
    /\ \A c \in Callers : (task[c].pc # "idle") ~> (task[c].pc = "idle")

\* C17 witness: a call that had to sleep until after MaxTime, when no new
\* call is started any more, has dispatched and is over.
C17_Witness ==
    /\ doneMax > MaxTime
    /\ CallEnded
    /\ outcome.nDispatch = 1

====
